---- MODULE Spec2Model ----
(***************************************************************************)
(* Response-normalization layer of ads_mcp/utils.py:                       *)
(*   format_output_value   (the Value Normalizer)                          *)
(*   get_nested_attr_safe  (the Nested Field Resolver)                     *)
(*   format_output_row     (the Row Formatter)                             *)
(* and the construction of the API client when the module is imported.     *)
(*                                                                         *)
(* Python values are records tagged by t:                                  *)
(*   "None", "int", "str", "bytes", "list", "dict"  built-in values        *)
(*   "obj"   any other object, described by the answers it gives to the    *)
(*           isinstance / hasattr / type-name probes the code makes        *)
(*           (probes), by what it yields when iterated or listed (keys,    *)
(*           items), by its data attributes in dir() order (attrs), and    *)
(*           by whether reading its contents raises (faulty) and whether   *)
(*           str() of it raises (unprintable).                             *)
(* Exceptions are instances of Exception, the class the handlers catch.    *)
(* Attribute names and field paths are sequences of characters, so that    *)
(* split("."), endswith("_") and name[:-1] are computed, not looked up.    *)
(***************************************************************************)
EXTENDS Integers, Sequences, FiniteSets, TLC

VARIABLES pc, value, ret, obj, path, res, row, attributes, out, idx,
          environ, _googleads_client, startup_error

startupVars == <<environ, _googleads_client, startup_error>>
vars == <<pc, value, ret, obj, path, res, row, attributes, out, idx,
          environ, _googleads_client, startup_error>>

(* ------------------------------ bounds -------------------------------- *)
MaxLen == 3
MaxPathLen == 4
MaxAttrs == 3

(* --------------------------- Python values ----------------------------- *)
None == [t |-> "None"]
IntV(i) == [t |-> "int", i |-> i]
StrV(s) == [t |-> "str", s |-> s]
BytesV(s) == [t |-> "bytes", s |-> s]
ListV(items) == [t |-> "list", items |-> items]
DictV(kv) == [t |-> "dict", kv |-> kv]

NoAttrs == << >>

Obj(probes, keys, items, attrs, faulty, unprintable) ==
    [t |-> "obj", probes |-> probes, name |-> "ENABLED", num |-> 2,
     text |-> StrV("Buy Now"), keys |-> keys, items |-> items, attrs |-> attrs,
     faulty |-> faulty, unprintable |-> unprintable]

AllProbes == {"Enum", "AdTextAsset", "text", "Mapping", "str_bytes", "Message",
              "ListFields", "upbRepeated", "iter", "len", "getitem", "PbMessage"}

\* What isinstance / hasattr / type(value).__name__ answer for a value.
ProbesOf(v) ==
    CASE v.t = "obj" -> v.probes
      [] v.t \in {"str", "bytes"} -> {"str_bytes", "iter", "len", "getitem"}
      [] v.t = "list" -> {"iter", "len", "getitem"}
      [] v.t = "dict" -> {"Mapping", "iter", "len", "getitem"}
      [] OTHER -> {}

Has(v, p) == p \in ProbesOf(v)

Faulty(v) == v.t = "obj" /\ v.faulty
Unprintable(v) == v.t = "obj" /\ v.unprintable

\* The elements a value yields when iterated, and the (key, value) pairs
\* items() / ListFields() give.
ItemsOf(v) ==
    CASE v.t = "obj" -> v.items
      [] v.t = "list" -> v.items
      [] v.t = "dict" -> [i \in 1..Len(v.kv) |-> v.kv[i][2]]
      [] OTHER -> << >>

KeysOf(v) ==
    CASE v.t = "obj" -> v.keys
      [] v.t = "dict" -> [i \in 1..Len(v.kv) |-> v.kv[i][1]]
      [] OTHER -> << >>

\* str(k)
PyStr(v) ==
    CASE v.t = "str" -> v.s
      [] v.t = "int" -> ToString(v.i)
      [] v.t = "None" -> "None"
      [] v.t = "bytes" -> "b'" \o v.s \o "'"
      [] v.t = "list" -> "[...]"
      [] v.t = "dict" -> "{...}"
      [] OTHER -> "<object>"

\* an assignment that moves a key written again to the end
DictSetMovesKey(kv, k, v) ==
    Append(SelectSeq(kv, LAMBDA e : e[1] # k), <<k, v>>)

\* out[k] = v on a Python dict: an existing key keeps its position.
DictSet(kv, k, v) ==
    IF \E i \in 1..Len(kv) : kv[i][1] = k
    THEN [i \in 1..Len(kv) |-> IF kv[i][1] = k THEN <<k, v>> ELSE kv[i]]
    ELSE Append(kv, <<k, v>>)

RECURSIVE DictFromPairs(_, _, _)
DictFromPairs(keys, vals, n) ==
    IF n = 0 THEN << >>
    ELSE DictSet(DictFromPairs(keys, vals, n - 1), keys[n], vals[n])

RECURSIVE Join(_)
Join(chars) == IF chars = << >> THEN "" ELSE Head(chars) \o Join(Tail(chars))

(* -------------------------- outcomes of calls -------------------------- *)
Return(v) == [raised |-> FALSE, val |-> v]
Raise == [raised |-> TRUE, val |-> None]

(* ------------------------ _is_repeated_container ----------------------- *)
\* the probes without the exclusion of proto.Message
IsRepeatedWithoutMessageExclusion(v) ==
    IF v.t = "None" THEN FALSE
    ELSE IF Has(v, "str_bytes") THEN FALSE
    ELSE IF Has(v, "Mapping") THEN FALSE
    ELSE IF Has(v, "upbRepeated") THEN TRUE
    ELSE IF Has(v, "iter") THEN TRUE
    ELSE IF Has(v, "len") /\ Has(v, "getitem") THEN TRUE
    ELSE FALSE

_is_repeated_container(v) ==
    IF v.t = "None" THEN FALSE
    ELSE IF Has(v, "str_bytes") THEN FALSE
    ELSE IF Has(v, "Mapping") THEN FALSE
    ELSE IF Has(v, "Message") THEN FALSE
    ELSE IF Has(v, "upbRepeated") THEN TRUE
    ELSE IF Has(v, "iter") THEN TRUE
    ELSE IF Has(v, "len") /\ Has(v, "getitem") THEN TRUE
    ELSE FALSE

\* `for v in value` works through __iter__ or, failing that, __getitem__.
Iterable(v) == (Has(v, "iter") \/ Has(v, "getitem")) /\ ~Faulty(v)

(* ----------------------------- MessageToDict --------------------------- *)
ProtobufMessage == TRUE

RECURSIVE JsonOf(_)
JsonOfAll(seq) == [i \in 1..Len(seq) |-> JsonOf(seq[i])]
AnyRaised(outs) == \E i \in 1..Len(outs) : outs[i].raised
Vals(outs) == [i \in 1..Len(outs) |-> outs[i].val]
StrKeys(keys) == [i \in 1..Len(keys) |-> StrV(PyStr(keys[i]))]

\* MessageToDict(value, preserving_proto_field_name=True): field name ->
\* JSON form of the field (bytes as base64 text, nested messages as dicts,
\* repeated fields as lists).
MessageToDict(v) ==
    IF Faulty(v) THEN Raise
    ELSE LET outs == JsonOfAll(v.items)
         IN IF AnyRaised(outs) THEN Raise
            ELSE Return(DictV(DictFromPairs(StrKeys(v.keys), Vals(outs), Len(outs))))

JsonOf(v) ==
    CASE v.t \in {"None", "int", "str"} -> Return(v)
      [] v.t = "bytes" -> Return(StrV("base64:" \o v.s))
      [] v.t = "list" ->
            LET outs == JsonOfAll(v.items)
            IN IF AnyRaised(outs) THEN Raise ELSE Return(ListV(Vals(outs)))
      [] v.t = "obj" /\ Has(v, "PbMessage") -> MessageToDict(v)
      [] v.t = "obj" /\ ~Has(v, "PbMessage") /\ Has(v, "upbRepeated") ->
            IF Faulty(v) THEN Raise
            ELSE LET outs == JsonOfAll(v.items)
                 IN IF AnyRaised(outs) THEN Raise ELSE Return(ListV(Vals(outs)))
      [] OTHER -> Raise

(* --------------------------- format_output_value ----------------------- *)
RECURSIVE format_output_value(_)

FormatAll(seq) == [i \in 1..Len(seq) |-> format_output_value(seq[i])]

\* value.name of a proto.Enum member
EnumRule(v) == Return(StrV(v.name))

\* getattr(value, "text") of an AdTextAsset, returned as it is
TextAssetRule(v) == Return(v.text)

\* {str(k): format_output_value(v) for k, v in value.items()}
MappingRule(v) ==
    IF Faulty(v) THEN Raise
    ELSE LET outs == FormatAll(ItemsOf(v))
         IN IF AnyRaised(outs) THEN Raise
            ELSE Return(DictV(DictFromPairs(StrKeys(KeysOf(v)), Vals(outs), Len(outs))))

\* a list of the elements as they are, not converted
RepeatedRuleNoRecursion(v) ==
    IF ~Iterable(v) THEN Raise
    ELSE Return(ListV(ItemsOf(v)))

\* [format_output_value(v) for v in value]
RepeatedRule(v) ==
    IF ~Iterable(v) THEN Raise
    ELSE LET outs == FormatAll(ItemsOf(v))
         IN IF AnyRaised(outs) THEN Raise ELSE Return(ListV(Vals(outs)))

\* the attributes the best-effort scan keeps: not underscore-prefixed
\* (getattr failures and callables are not among attrs)
ScanAttrs(v) == SelectSeq(v.attrs, LAMBDA a : a[1] = << >> \/ Head(a[1]) # "_")

\* proto-plus message: pb.ListFields(), else the dir() scan
MessageRule(v) ==
    IF Has(v, "ListFields")
    THEN IF Faulty(v) THEN Raise
         ELSE LET outs == FormatAll(v.items)
              IN IF AnyRaised(outs) THEN Raise
                 ELSE Return(DictV(DictFromPairs(StrKeys(v.keys), Vals(outs), Len(outs))))
    ELSE LET as == ScanAttrs(v)
             outs == FormatAll([i \in 1..Len(as) |-> as[i][2]])
             names == [i \in 1..Len(as) |-> StrV(Join(as[i][1]))]
         IN IF AnyRaised(outs) THEN Raise
            ELSE Return(DictV(DictFromPairs(names, Vals(outs), Len(outs))))

\* the body of the try block
TryBody(v) ==
    IF v.t = "None" THEN Return(None)
    ELSE IF Has(v, "Enum") THEN EnumRule(v)
    ELSE IF Has(v, "AdTextAsset") /\ Has(v, "text") THEN TextAssetRule(v)
    ELSE IF Has(v, "Mapping") THEN MappingRule(v)
    ELSE IF _is_repeated_container(v) THEN RepeatedRule(v)
    ELSE IF Has(v, "Message") THEN MessageRule(v)
    ELSE IF ProtobufMessage /\ Has(v, "PbMessage") THEN MessageToDict(v)
    ELSE Return(v)

\* the except handler: return str(value), outside any try
ExceptHandler(v) == IF Unprintable(v) THEN Raise ELSE Return(StrV(PyStr(v)))

format_output_value(v) ==
    LET r == TryBody(v) IN IF r.raised THEN ExceptHandler(v) ELSE r

(* ------------------------------ inputs --------------------------------- *)
EnumEnabled == Obj({"Enum"}, << >>, << >>, NoAttrs, FALSE, FALSE)
BrokenObj == Obj({"iter"}, << >>, << >>, NoAttrs, TRUE, FALSE)
UnprintableObj == Obj({"iter"}, << >>, << >>, NoAttrs, TRUE, TRUE)

Elems == {IntV(1), IntV(2), IntV(3), BytesV("x"), EnumEnabled, BrokenObj, UnprintableObj,
          ListV(<<EnumEnabled>>)}

RECURSIVE SeqsUpTo(_, _)
SeqsUpTo(S, n) ==
    IF n = 0 THEN {<< >>}
    ELSE LET shorter == SeqsUpTo(S, n - 1)
         IN shorter \cup {Append(s, e) : s \in {x \in shorter : Len(x) = n - 1}, e \in S}

FieldNames == [i \in 1..(MaxLen + 1) |-> "f" \o ToString(i)]
StrKeySeq(n) == [i \in 1..n |-> StrV(FieldNames[i])]
IntKeySeq(n) == [i \in 1..n |-> IntV(IF i = 3 THEN 1 ELSE i)]

Classes == {{"AdTextAsset", "text", "Message", "ListFields"},
            {"Mapping", "iter", "len", "getitem"},
            {"upbRepeated", "iter", "len", "getitem"},
            {"iter", "len", "getitem"},
            {"Message", "ListFields"},
            {"Message", "ListFields", "iter"},
            {"PbMessage"},
            {}}

Leaves == {None, IntV(1), StrV("a"), BytesV("x"), EnumEnabled}

\* every combination of probe answers, with fixed contents
ProbeFamily ==
    {Obj(ps, StrKeySeq(2), <<IntV(1), EnumEnabled>>,
         <<<<<<"a">>, IntV(1)>>, <<<<"_", "t">>, IntV(2)>>>>, f, u) :
        ps \in SUBSET AllProbes, f \in BOOLEAN, u \in BOOLEAN}

\* the object model's classes, with every content up to MaxLen
ClassFamily ==
    {Obj(ps, StrKeySeq(Len(items)), items, NoAttrs, FALSE, FALSE) :
        ps \in Classes, items \in SeqsUpTo(Elems, MaxLen)}
    \cup {Obj({"Mapping", "iter", "len", "getitem"}, IntKeySeq(Len(items)), items,
              NoAttrs, FALSE, FALSE) : items \in SeqsUpTo(Elems, MaxLen)}

\* objects whose class is named AdTextAsset, with each kind of text attribute
WithText(o, txt) == [o EXCEPT !.text = txt]
TextFamily ==
    {WithText(Obj(ps, << >>, << >>, NoAttrs, FALSE, FALSE), txt) :
        ps \in {{"AdTextAsset", "text", "Message", "ListFields"},
                {"AdTextAsset", "text", "PbMessage"},
                {"AdTextAsset", "text"}},
        txt \in {StrV("Buy Now"), StrV(""), EnumEnabled, BytesV("x")}}

Values == Leaves \cup ProbeFamily \cup ClassFamily \cup TextFamily

(* ------------------- _get_attr_with_reserved_fallback ------------------ *)
\* getattr(obj, name): only objects carry the data attributes paths name
\* every Python value, None included, answers getattr(v, "__class__")
DunderClass == <<"_", "_", "c", "l", "a", "s", "s", "_", "_">>
TypeObject == Obj({}, << >>, << >>, NoAttrs, FALSE, FALSE)

HasDataAttr(o, name) == o.t = "obj" /\ \E i \in 1..Len(o.attrs) : o.attrs[i][1] = name
HasAttr(o, name) == name = DunderClass \/ HasDataAttr(o, name)
GetAttr(o, name) ==
    IF HasDataAttr(o, name)
    THEN o.attrs[CHOOSE i \in 1..Len(o.attrs) : o.attrs[i][1] = name][2]
    ELSE TypeObject

Resolved(v) == [raised |-> FALSE, val |-> v, err |-> << >>]
AttributeError(name) == [raised |-> TRUE, val |-> None, err |-> name]

Marker == "_"
EndsWithMarker(name) == name # << >> /\ name[Len(name)] = Marker
WithMarker(name) == Append(name, Marker)
WithoutMarker(name) == SubSeq(name, 1, Len(name) - 1)

\* tries the suffixed name before the name itself
SuffixFirstFallback(o, name) ==
    IF o.t = "None" THEN AttributeError(name)
    ELSE IF HasAttr(o, WithMarker(name)) THEN Resolved(GetAttr(o, WithMarker(name)))
    ELSE IF HasAttr(o, name) THEN Resolved(GetAttr(o, name))
    ELSE IF EndsWithMarker(name) /\ HasAttr(o, WithoutMarker(name))
         THEN Resolved(GetAttr(o, WithoutMarker(name)))
    ELSE AttributeError(name)

\* the fallback without the test for None
FallbackWithoutNoneGuard(o, name) ==
    IF HasAttr(o, name) THEN Resolved(GetAttr(o, name))
    ELSE IF HasAttr(o, WithMarker(name)) THEN Resolved(GetAttr(o, WithMarker(name)))
    ELSE IF EndsWithMarker(name) /\ HasAttr(o, WithoutMarker(name))
         THEN Resolved(GetAttr(o, WithoutMarker(name)))
    ELSE AttributeError(name)

_get_attr_with_reserved_fallback(o, name) ==
    IF o.t = "None" THEN AttributeError(name)
    ELSE IF HasAttr(o, name) THEN Resolved(GetAttr(o, name))
    ELSE IF HasAttr(o, WithMarker(name)) THEN Resolved(GetAttr(o, WithMarker(name)))
    ELSE IF EndsWithMarker(name) /\ HasAttr(o, WithoutMarker(name))
         THEN Resolved(GetAttr(o, WithoutMarker(name)))
    ELSE AttributeError(name)

(* -------------------------- get_nested_attr_safe ----------------------- *)
\* path.split(".")
RECURSIVE Split(_)
Split(p) ==
    IF \A i \in 1..Len(p) : p[i] # "."
    THEN <<p>>
    ELSE LET k == CHOOSE i \in 1..Len(p) : p[i] = "." /\ \A j \in 1..(i - 1) : p[j] # "."
         IN <<SubSeq(p, 1, k - 1)>> \o Split(SubSeq(p, k + 1, Len(p)))

\* the loop over the segments, from the current object
RECURSIVE Walk(_, _)
Walk(cur, parts) ==
    IF parts = << >> THEN Resolved(cur)
    ELSE LET r == _get_attr_with_reserved_fallback(cur, Head(parts))
         IN IF r.raised THEN r ELSE Walk(r.val, Tail(parts))

\* reports the whole path, not the segment, when a segment fails
NestedReportsPath(o, p) ==
    LET r == Walk(o, Split(p)) IN IF r.raised THEN AttributeError(p) ELSE r

get_nested_attr_safe(o, p) == Walk(o, Split(p))

(* ----------------------------- format_output_row ----------------------- *)
RowOutcome(kv) == [raised |-> FALSE, kv |-> kv]
RowRaise == [raised |-> TRUE, kv |-> << >>]

\* the try block of one iteration: resolve, then convert
TryPath(r, attr) ==
    LET raw_val == get_nested_attr_safe(r, attr)
    IN IF raw_val.raised THEN Raise ELSE format_output_value(raw_val.val)

\* one iteration that lets the failure of a path escape
RowIterNoCatch(kv, r, attr) ==
    LET t == TryPath(r, attr)
    IN IF t.raised THEN RowRaise ELSE RowOutcome(DictSet(kv, attr, t.val))

\* one iteration that starts the mapping afresh when a path fails
RowIterResets(kv, r, attr) ==
    LET t == TryPath(r, attr)
    IN IF t.raised THEN RowOutcome(<<<<attr, None>>>>)
       ELSE RowOutcome(DictSet(kv, attr, t.val))

\* one iteration that removes the path before writing it again
RowIterReinserts(kv, r, attr) ==
    LET t == TryPath(r, attr)
    IN RowOutcome(DictSetMovesKey(kv, attr, IF t.raised THEN None ELSE t.val))

\* one iteration of the loop: out[attr] = value, or None on any exception
RowIter(kv, r, attr) ==
    LET t == TryPath(r, attr)
    IN IF t.raised THEN RowOutcome(DictSet(kv, attr, None))
       ELSE RowOutcome(DictSet(kv, attr, t.val))

\* the whole call, as the loop computes it
RECURSIVE RowLoop(_, _, _)
RowLoop(kv, r, attrs) ==
    IF attrs = << >> THEN RowOutcome(kv)
    ELSE LET o == RowIter(kv, r, Head(attrs))
         IN IF o.raised THEN o ELSE RowLoop(o.kv, r, Tail(attrs))

format_output_row(r, attrs) == RowLoop(<< >>, r, attrs)

(* ---------------------------- records and paths ------------------------ *)
Absent == [t |-> "absent"]

Chars == {"a", "t", Marker, "."}
\* every short path, and paths that name an attribute None has
Paths ==
    SeqsUpTo(Chars, MaxPathLen)
    \cup {DunderClass, <<"a", ".">> \o DunderClass, <<"t", ".">> \o DunderClass,
          <<"a", ".", "t", ".">> \o DunderClass}

\* a proto-plus message with the given attributes (name, value), in dir() order
Message(attrs) ==
    Obj({"Message", "ListFields"},
        [i \in 1..Len(attrs) |-> StrV(Join(attrs[i][1]))],
        [i \in 1..Len(attrs) |-> attrs[i][2]],
        attrs, FALSE, FALSE)

AdSuffixed == Message(<<<<<<"t", Marker>>, EnumEnabled>>>>)
AdBoth == Message(<<<<<<"t">>, IntV(1)>>, <<<<"t", Marker>>, IntV(2)>>>>)

Present(attrs) == SelectSeq(attrs, LAMBDA a : a[2] # Absent)

Rows ==
    {Message(Present(<<<<<<"a">>, a>>, <<<<"t">>, b>>, <<<<"t", Marker>>, c>>>>)) :
        a \in {Absent, None, AdSuffixed, AdBoth, UnprintableObj},
        b \in {Absent, IntV(1)},
        c \in {Absent, IntV(2), AdSuffixed}}

RowPaths == {<<"a", ".", "t">>, <<"a">>, <<"t">>, <<"t", ".">>}
AttributeLists == SeqsUpTo(RowPaths, MaxAttrs)

(* ------------------- credentials and the API client -------------------- *)
EnvNames == {"GOOGLE_ADS_CLIENT_ID", "GOOGLE_ADS_CLIENT_SECRET",
             "GOOGLE_ADS_REFRESH_TOKEN", "GOOGLE_ADS_DEVELOPER_TOKEN",
             "GOOGLE_ADS_LOGIN_CUSTOMER_ID"}

\* os.environ.get(name): None for a variable that is not set
EnvGet(env, name) == env[name]

\* bool(v) of None or a string
Truthy(v) == v.t = "str" /\ v.s # ""

Built(v) == [raised |-> FALSE, val |-> v, error |-> ""]
ValueError(msg) == [raised |-> TRUE, val |-> None, error |-> msg]

NoClient == [t |-> "unbound"]

_create_credentials(env) ==
    LET client_id == EnvGet(env, "GOOGLE_ADS_CLIENT_ID")
        client_secret == EnvGet(env, "GOOGLE_ADS_CLIENT_SECRET")
        refresh_token == EnvGet(env, "GOOGLE_ADS_REFRESH_TOKEN")
    IN IF ~(Truthy(client_id) /\ Truthy(client_secret) /\ Truthy(refresh_token))
       THEN ValueError("Missing OAuth credentials.")
       ELSE Built([t |-> "Credentials", token |-> None, refresh_token |-> refresh_token,
                   client_id |-> client_id, client_secret |-> client_secret])

\* a developer token that falls back to the empty string
DeveloperTokenDefaulted(env) ==
    LET dev_token == EnvGet(env, "GOOGLE_ADS_DEVELOPER_TOKEN")
    IN IF dev_token = None THEN Built(StrV("")) ELSE Built(dev_token)

_get_developer_token(env) ==
    LET dev_token == EnvGet(env, "GOOGLE_ADS_DEVELOPER_TOKEN")
    IN IF dev_token = None
       THEN ValueError("GOOGLE_ADS_DEVELOPER_TOKEN environment variable not set.")
       ELSE Built(dev_token)

_get_login_customer_id(env) == EnvGet(env, "GOOGLE_ADS_LOGIN_CUSTOMER_ID")

\* the arguments are evaluated in order, then the client is constructed
_get_googleads_client(env) ==
    LET credentials == _create_credentials(env)
        developer_token == _get_developer_token(env)
    IN IF credentials.raised THEN credentials
       ELSE IF developer_token.raised THEN developer_token
       ELSE Built([t |-> "GoogleAdsClient", credentials |-> credentials.val,
                   developer_token |-> developer_token.val,
                   login_customer_id |-> _get_login_customer_id(env)])

EnvValues == {None, StrV(""), StrV("x")}
Environs ==
    {[n \in EnvNames |->
        CASE n = "GOOGLE_ADS_CLIENT_ID" -> a
          [] n = "GOOGLE_ADS_CLIENT_SECRET" -> b
          [] n = "GOOGLE_ADS_REFRESH_TOKEN" -> c
          [] n = "GOOGLE_ADS_DEVELOPER_TOKEN" -> d
          [] OTHER -> e] :
        a \in EnvValues, b \in EnvValues, c \in EnvValues, d \in EnvValues,
        e \in {None, StrV("x")}}

\* an environment with every variable set
ConfiguredEnviron == [n \in EnvNames |-> StrV("x")]

(* ------------------------------ the calls ------------------------------ *)
NoCall ==
    /\ value = None /\ ret = Return(None)
    /\ obj = None /\ path = << >> /\ res = Resolved(None)
    /\ row = None /\ attributes = << >> /\ out = << >> /\ idx = 1

\* the module has been imported in a configured environment
Init ==
    /\ pc = "idle"
    /\ NoCall
    /\ environ = ConfiguredEnviron
    /\ _googleads_client = _get_googleads_client(ConfiguredEnviron).val
    /\ startup_error = ""

\* a caller calls format_output_value(value)
CallFormatOutputValue ==
    /\ pc = "idle"
    /\ \E v \in Values :
        /\ value' = v
        /\ ret' = format_output_value(v)
    /\ pc' = "value"
    /\ UNCHANGED <<obj, path, res, row, attributes, out, idx>>
    /\ UNCHANGED startupVars

\* a caller calls get_nested_attr_safe(obj, path)
CallGetNestedAttrSafe ==
    /\ pc = "idle"
    /\ \E o \in Rows, p \in Paths :
        /\ obj' = o
        /\ path' = p
        /\ res' = get_nested_attr_safe(o, p)
    /\ pc' = "nested"
    /\ UNCHANGED <<value, ret, row, attributes, out, idx>>
    /\ UNCHANGED startupVars

\* a caller calls format_output_row(row, attributes): out = {}
CallFormatOutputRow ==
    /\ pc = "idle"
    /\ \E r \in Rows, as \in AttributeLists :
        /\ row' = r
        /\ attributes' = as
    /\ out' = << >>
    /\ idx' = 1
    /\ pc' = "row"
    /\ UNCHANGED <<value, ret, obj, path, res>>
    /\ UNCHANGED startupVars

\* one iteration of `for attr in attributes`
RowStep ==
    /\ pc = "row"
    /\ idx <= Len(attributes)
    /\ LET o == RowIter(out, row, attributes[idx])
       IN IF o.raised
          THEN pc' = "rowraised" /\ UNCHANGED <<out, idx>>
          ELSE pc' = "row" /\ out' = o.kv /\ idx' = idx + 1
    /\ UNCHANGED <<value, ret, obj, path, res, row, attributes>>
    /\ UNCHANGED startupVars

\* return out
RowReturn ==
    /\ pc = "row"
    /\ idx > Len(attributes)
    /\ pc' = "rowdone"
    /\ UNCHANGED <<value, ret, obj, path, res, row, attributes, out, idx>>
    /\ UNCHANGED startupVars

\* the caller takes the result; the next call starts afresh
Done ==
    /\ pc \in {"value", "nested", "rowdone", "rowraised"}
    /\ pc' = "idle"
    /\ value' = None /\ ret' = Return(None)
    /\ obj' = None /\ path' = << >> /\ res' = Resolved(None)
    /\ row' = None /\ attributes' = << >> /\ out' = << >> /\ idx' = 1
    /\ UNCHANGED startupVars

Next ==
    \/ CallFormatOutputValue
    \/ CallGetNestedAttrSafe
    \/ CallFormatOutputRow
    \/ RowStep
    \/ RowReturn
    \/ Done

Spec == Init /\ [][Next]_vars

(* --------------------------- service startup --------------------------- *)
\* the process starts in some environment; the module is not imported yet
InitStartup ==
    /\ pc = "import"
    /\ NoCall
    /\ environ \in Environs
    /\ _googleads_client = NoClient
    /\ startup_error = ""

\* import of the module: _googleads_client = _get_googleads_client()
ImportModule ==
    /\ pc = "import"
    /\ LET c == _get_googleads_client(environ)
       IN IF c.raised
          THEN /\ pc' = "importfailed"
               /\ startup_error' = c.error
               /\ UNCHANGED _googleads_client
          ELSE /\ pc' = "idle"
               /\ _googleads_client' = c.val
               /\ UNCHANGED startup_error
    /\ UNCHANGED <<value, ret, obj, path, res, row, attributes, out, idx, environ>>

NextStartup == ImportModule

SpecStartup == InitStartup /\ [][NextStartup]_vars

(* ============================== properties ============================= *)
Lookup(kv, k) == kv[CHOOSE i \in 1..Len(kv) : kv[i][1] = k][2]
KeySet(kv) == {kv[i][1] : i \in 1..Len(kv)}
Range(seq) == {seq[i] : i \in 1..Len(seq)}
UniqueKeys(kv) == \A i, j \in 1..Len(kv) : kv[i][1] = kv[j][1] => i = j

PathResolves(r, p) == ~get_nested_attr_safe(r, p).raised
PathConverts(r, p) ==
    PathResolves(r, p) /\ ~format_output_value(get_nested_attr_safe(r, p).val).raised

\* C1: whatever happens to the single paths, the mapping format_output_row
\* returns has exactly the requested paths as its keys, each once.
C1_KeySetIsPaths ==
    pc = "rowdone" => KeySet(out) = Range(attributes) /\ UniqueKeys(out)

\* a finished row whose paths include one that resolved and converted, one
\* that did not resolve and one that resolved and did not convert
C1_Witness ==
    /\ pc = "rowdone"
    /\ \E i, j, k \in 1..Len(attributes) :
        /\ PathConverts(row, attributes[i])
        /\ ~PathResolves(row, attributes[j])
        /\ PathResolves(row, attributes[k]) /\ ~PathConverts(row, attributes[k])

\* what one path contributes to the row: its converted value, or None
ResultFor(r, p) ==
    IF PathConverts(r, p)
    THEN format_output_value(get_nested_attr_safe(r, p).val).val
    ELSE None

\* C2: format_output_row never fails as a whole: a path that fails to
\* resolve or to convert gets None, and every other path gets the value it
\* gets when the failing path is not in the list.
C2_RowNeverFails ==
    /\ pc # "rowraised"
    /\ pc = "rowdone" =>
        /\ \A i \in 1..Len(attributes) :
              ~PathConverts(row, attributes[i]) => Lookup(out, attributes[i]) = None
        /\ \A q \in Range(attributes) :
              ~PathConverts(row, q) =>
                 LET others == SelectSeq(attributes, LAMBDA p : p # q)
                     without == format_output_row(row, others)
                 IN /\ ~without.raised
                    /\ \A p \in Range(others) : Lookup(out, p) = Lookup(without.kv, p)

\* a finished row with a failing path between two paths that yield values
C2_Witness ==
    /\ pc = "rowdone"
    /\ Len(attributes) = 3
    /\ PathConverts(row, attributes[1]) /\ Lookup(out, attributes[1]) # None
    /\ ~PathConverts(row, attributes[2]) /\ Lookup(out, attributes[2]) = None
    /\ PathConverts(row, attributes[3]) /\ Lookup(out, attributes[3]) # None
    /\ attributes[1] # attributes[3]

\* C3: format_output_value never raises; when the conversion fails inside,
\* it returns the printable string form of its argument.
C3_NeverRaises ==
    pc = "value" =>
        /\ ~ret.raised
        /\ TryBody(value).raised => ret = Return(StrV(PyStr(value)))

\* C4: format_output_value applied to its own result gives that result.
C4_Idempotent ==
    pc = "value" /\ ~ret.raised => format_output_value(ret.val) = ret

\* a Normalized Value: None, a number or string, a list of Normalized
\* Values, a dict from strings to Normalized Values
RECURSIVE IsNormalized(_)
IsNormalized(v) ==
    CASE v.t \in {"None", "int", "str"} -> TRUE
      [] v.t = "list" -> \A i \in 1..Len(v.items) : IsNormalized(v.items[i])
      [] v.t = "dict" ->
            \A i \in 1..Len(v.kv) : v.kv[i][1].t = "str" /\ IsNormalized(v.kv[i][2])
      [] OTHER -> FALSE

\* C5: whatever the argument, the result of format_output_value is a
\* Normalized Value.
C5_ResultIsNormalized ==
    pc = "value" /\ ~ret.raised => IsNormalized(ret.val)

\* the names tried for a segment, in the order of the claim
Candidates(name) ==
    <<name, WithMarker(name)>> \o
        (IF EndsWithMarker(name) THEN <<WithoutMarker(name)>> ELSE << >>)
\* None has no field
Hits(o, name) ==
    IF o = None THEN {}
    ELSE {i \in 1..Len(Candidates(name)) : HasAttr(o, Candidates(name)[i])}
FirstHit(o, name) == CHOOSE i \in Hits(o, name) : \A j \in Hits(o, name) : i <= j

\* the walk of the claim: <<k, v>>, k the first segment that no candidate
\* resolves (0 when all resolve), v the value reached
RECURSIVE ClaimWalk(_, _, _)
ClaimWalk(cur, parts, k) ==
    IF k > Len(parts) THEN <<0, cur>>
    ELSE IF Hits(cur, parts[k]) = {} THEN <<k, cur>>
    ELSE ClaimWalk(GetAttr(cur, Candidates(parts[k])[FirstHit(cur, parts[k])]), parts, k + 1)

\* C6: each segment resolves to the first of: the name, the name with "_"
\* appended, the name with a final "_" stripped; the value found is the
\* object of the next segment; so "a.t" gives what "t_" of "a" holds when
\* "a" has no "t".
C6_FallbackOrder ==
    pc = "nested" =>
        LET w == ClaimWalk(obj, Split(path), 1)
        IN /\ w[1] = 0 => res = Resolved(w[2])
           /\ (/\ path = <<"a", ".", "t">>
               /\ HasAttr(obj, <<"a">>)
               /\ ~HasAttr(GetAttr(obj, <<"a">>), <<"t">>)
               /\ HasAttr(GetAttr(obj, <<"a">>), <<"t", Marker>>))
              => res = Resolved(GetAttr(GetAttr(obj, <<"a">>), <<"t", Marker>>))

\* "a.t" resolved through the suffixed attribute of "a"
C6_Witness ==
    /\ pc = "nested"
    /\ path = <<"a", ".", "t">>
    /\ HasAttr(obj, <<"a">>)
    /\ ~HasAttr(GetAttr(obj, <<"a">>), <<"t">>)
    /\ HasAttr(GetAttr(obj, <<"a">>), <<"t", Marker>>)
    /\ res = Resolved(EnumEnabled)

\* C7: when a segment resolves under none of the three names, the call
\* fails with the error carrying that segment, the first that failed, and
\* returns nothing; it fails in no other case.
C7_ErrorNamesSegment ==
    pc = "nested" =>
        LET parts == Split(path)
            w == ClaimWalk(obj, parts, 1)
        IN /\ w[1] # 0 => res = AttributeError(parts[w[1]])
           /\ res.raised => w[1] # 0

\* a two-segment path whose second segment is the one that fails
C7_Witness ==
    /\ pc = "nested"
    /\ Len(Split(path)) = 2
    /\ HasAttr(obj, Split(path)[1])
    /\ Split(path)[2] # Split(path)[1]
    /\ res = AttributeError(Split(path)[2])

\* the categories of the claim, tested in its order
Category(v) ==
    IF v.t = "None" THEN "null"
    ELSE IF Has(v, "Enum") THEN "enumeration"
    ELSE IF Has(v, "AdTextAsset") /\ Has(v, "text") THEN "text-asset-shorthand"
    ELSE IF Has(v, "Mapping") THEN "mapping"
    ELSE IF /\ ~Has(v, "str_bytes") /\ ~Has(v, "Message")
            /\ (Has(v, "upbRepeated") \/ Has(v, "iter")
                \/ (Has(v, "len") /\ Has(v, "getitem")))
         THEN "repeated-container"
    ELSE IF Has(v, "Message") THEN "structured-record"
    ELSE IF Has(v, "PbMessage") THEN "foreign-message"
    ELSE "scalar"

\* the conversion of v meets no exception: its contents can be read and
\* each element converts
ConvertsCleanly(v) ==
    /\ ~Faulty(v)
    /\ Category(v) = "repeated-container" => Iterable(v)
    /\ Category(v) \in {"mapping", "repeated-container", "structured-record"} =>
          \A i \in 1..Len(ItemsOf(v)) : ~format_output_value(ItemsOf(v)[i]).raised
    /\ (Category(v) = "structured-record" /\ ~Has(v, "ListFields")) =>
          \A i \in 1..Len(v.attrs) : ~format_output_value(v.attrs[i][2]).raised
    /\ Category(v) = "foreign-message" => ~MessageToDict(v).raised

\* C8: the value is converted by the rule of the first category it matches,
\* in the order null, enumeration, text asset, mapping, repeated container,
\* structured record, foreign message, scalar; a record that is iterable or
\* indexed becomes a mapping, an enumeration member its name.
C8_FirstCategoryWins ==
    (pc = "value" /\ ConvertsCleanly(value)) =>
        /\ ~ret.raised
        /\ Category(value) = "null" => ret.val = None
        /\ Category(value) = "enumeration" =>
              ret.val = StrV(value.name) /\ ret.val # IntV(value.num)
        /\ Category(value) = "text-asset-shorthand" => ret.val = value.text
        /\ Category(value) = "mapping" =>
              ret.val.t = "dict" /\ KeySet(ret.val.kv) = Range(StrKeys(KeysOf(value)))
        /\ Category(value) = "repeated-container" =>
              ret.val.t = "list" /\ Len(ret.val.items) = Len(ItemsOf(value))
        /\ Category(value) = "structured-record" => ret.val.t = "dict"
        /\ Category(value) = "foreign-message" => ret.val.t = "dict"
        /\ Category(value) = "scalar" => ret.val = value
        /\ (Has(value, "Message") /\ ~Has(value, "Enum") /\ ~Has(value, "Mapping")
            /\ ~(Has(value, "AdTextAsset") /\ Has(value, "text")))
           => ret.val.t = "dict"

\* a record that also answers the iterability probe, converted to a mapping
\* of its two fields
C8_Witness ==
    /\ pc = "value"
    /\ ConvertsCleanly(value)
    /\ Category(value) = "structured-record"
    /\ Has(value, "iter") /\ Has(value, "len") /\ Has(value, "getitem")
    /\ Has(value, "ListFields")
    /\ Len(value.items) = 2
    /\ ret.val.t = "dict" /\ Len(ret.val.kv) = 2

\* C9: a repeated container with elements e1..en becomes the list of n
\* elements whose i-th element is format_output_value(ei), in that order.
C9_RepeatedInOrder ==
    (/\ pc = "value"
     /\ Category(value) = "repeated-container"
     /\ ConvertsCleanly(value))
    => ret = Return(ListV([i \in 1..Len(ItemsOf(value)) |->
                              format_output_value(ItemsOf(value)[i]).val]))

\* [1, 2, ENABLED] in a native repeated container
C9_Witness ==
    /\ pc = "value"
    /\ Has(value, "upbRepeated")
    /\ Category(value) = "repeated-container"
    /\ ItemsOf(value) = <<IntV(1), IntV(2), EnumEnabled>>
    /\ ret = Return(ListV(<<IntV(1), IntV(2), StrV("ENABLED")>>))

RECURSIVE FirstOccurrences(_)
FirstOccurrences(seq) ==
    IF seq = << >> THEN << >>
    ELSE LET front == SubSeq(seq, 1, Len(seq) - 1)
             last == seq[Len(seq)]
         IN IF last \in Range(front) THEN FirstOccurrences(front)
            ELSE Append(FirstOccurrences(front), last)

\* C10: after k iterations the mapping holds the first k paths, in the
\* order of their first occurrence, and the entry of a path is the result
\* of its last occurrence among them.
C10_InputOrder ==
    pc \in {"row", "rowdone"} =>
        LET seen == SubSeq(attributes, 1, idx - 1)
        IN /\ [i \in 1..Len(out) |-> out[i][1]] = FirstOccurrences(seen)
           /\ \A p \in Range(seen) :
                 LET last == CHOOSE i \in 1..Len(seen) :
                                 seen[i] = p /\ \A j \in 1..Len(seen) : seen[j] = p => j <= i
                 IN Lookup(out, p) = ResultFor(row, seen[last])
           /\ pc = "rowdone" => idx = Len(attributes) + 1

\* a finished row whose first path occurs again after another path
C10_Witness ==
    /\ pc = "rowdone"
    /\ Len(attributes) = 3
    /\ attributes[1] = attributes[3] /\ attributes[1] # attributes[2]
    /\ Len(out) = 2
    /\ out[1][1] = attributes[1] /\ out[2][1] = attributes[2]
    /\ out[1][2] # None

RequiredNames == {"GOOGLE_ADS_CLIENT_ID", "GOOGLE_ADS_CLIENT_SECRET",
                  "GOOGLE_ADS_REFRESH_TOKEN", "GOOGLE_ADS_DEVELOPER_TOKEN"}
Missing(env) == {n \in RequiredNames : env[n] = None}

\* C11: when a required environment value is missing, the import of the
\* module ends in an error and no client is constructed; a client that is
\* constructed holds the values of the environment, never a default.
C11_StartupFailsFast ==
    pc # "import" =>
        /\ Missing(environ) # {} =>
              /\ pc = "importfailed"
              /\ _googleads_client = NoClient
              /\ startup_error # ""
        /\ _googleads_client # NoClient =>
              /\ _googleads_client.developer_token = environ["GOOGLE_ADS_DEVELOPER_TOKEN"]
              /\ _googleads_client.credentials.client_id = environ["GOOGLE_ADS_CLIENT_ID"]
              /\ _googleads_client.credentials.client_secret =
                    environ["GOOGLE_ADS_CLIENT_SECRET"]
              /\ _googleads_client.credentials.refresh_token =
                    environ["GOOGLE_ADS_REFRESH_TOKEN"]

\* the import failed in an environment that lacks the developer token only
C11_Witness ==
    /\ pc = "importfailed"
    /\ Missing(environ) = {"GOOGLE_ADS_DEVELOPER_TOKEN"}
    /\ \A n \in RequiredNames \ Missing(environ) : Truthy(environ[n])
    /\ _googleads_client = NoClient
    /\ startup_error = "GOOGLE_ADS_DEVELOPER_TOKEN environment variable not set."

\* the segments before the last segment of p resolve, one of them to None
NoneBeforeLast(r, p) ==
    \E k \in 1..(Len(Split(p)) - 1) : Walk(r, SubSeq(Split(p), 1, k)) = Resolved(None)

\* C12: a segment that follows a segment resolved to None is not looked up
\* on None: the call fails with the error naming that segment, and
\* format_output_row gives None for the path; a last segment that resolves
\* to None makes the call return None.
C12_NoneStopsTheWalk ==
    /\ pc = "nested" =>
          LET parts == Split(path)
              before == Walk(obj, SubSeq(parts, 1, Len(parts) - 1))
              last == parts[Len(parts)]
          IN /\ \A k \in 1..(Len(parts) - 1) :
                   Walk(obj, SubSeq(parts, 1, k)) = Resolved(None)
                      => res = AttributeError(parts[k + 1])
             /\ (/\ ~before.raised
                 /\ before.val # None
                 /\ Hits(before.val, last) # {}
                 /\ GetAttr(before.val, Candidates(last)[FirstHit(before.val, last)]) = None)
                => res = Resolved(None)
    /\ pc = "rowdone" =>
          \A i \in 1..Len(attributes) :
             NoneBeforeLast(row, attributes[i]) => Lookup(out, attributes[i]) = None

\* "a.__class__" on a record whose "a" is None: None has a __class__, and
\* the call fails naming __class__
C12_Witness ==
    /\ pc = "nested"
    /\ path = <<"a", ".">> \o DunderClass
    /\ HasAttr(obj, <<"a">>) /\ GetAttr(obj, <<"a">>) = None
    /\ HasAttr(None, DunderClass)
    /\ res = AttributeError(DunderClass)
====
